---- MODULE Spec2Model ----
(***************************************************************************)
(* StudioBuddy mastering backend (src/backend/main.py).                    *)
(*                                                                         *)
(* State: the in-memory job store JOBS, the work queue and the single      *)
(* worker thread of the ThreadPoolExecutor, the temporary directories that *)
(* exist on disk, the `async def` handler the event loop is running, and   *)
(* the response that is being sent.                                        *)
(*                                                                         *)
(* Scheduling: FastAPI runs the `async def` handlers (/master,             *)
(* /master/start, /analyze) on the event loop; none of them awaits, so the *)
(* loop runs one of them at a time.  The `def` handlers (/master/status,   *)
(* /master/result) run on threadpool threads and _run_matchering_job runs  *)
(* on the executor's worker thread: their steps interleave with the loop's *)
(* at every access of JOBS.                                                *)
(***************************************************************************)
EXTENDS FiniteSets, Integers, Sequences, TLC

\* Number of job ids uuid4 hands out in a run.
MaxJobs == 2

----------------------------------------------------------------------------
(* Values *)

\* JSON / Python values carried by responses and by the job store.
JFloat(s) == [type |-> "float", repr |-> s]
JStr(s)   == [type |-> "str", repr |-> s]
JBool(b)  == [type |-> "bool", repr |-> IF b THEN "true" ELSE "false"]
JNone     == [type |-> "null", repr |-> "null"]

\* A response without a JSON object.
NoBody == [k \in {} |-> JNone]

\* os.path.join(dir, stem + ext)
Path(dir, stem, ext) == [dir |-> dir, stem |-> stem, ext |-> ext]

\* output_path = None
NoPath == Path("", "", "")

\* An upload without a filename.
NoName == [stem |-> "", ext |-> ""]

\* `filename or default`
OrName(filename, default) ==
    IF filename = NoName THEN [stem |-> default, ext |-> ""] ELSE filename

\* str.lower() on the extensions that occur.
Lower(ext) ==
    CASE ext = ".MP3" -> ".mp3"
      [] ext = ".WAV" -> ".wav"
      [] OTHER -> ext

\* main.py:143 and main.py:145, main.py:300
MaxUploadBytes == 200 * 1024 * 1024
MinUploadBytes == 1024

allowed_extensions == {".mp3", ".wav", ".flac", ".ogg", ".m4a", ".aac", ".wma"}

\* The uploads a client sends: filename, size in bytes, and what ffmpeg makes
\* of the content ("audio": probe and conversion succeed, "corrupt": the probe
\* exits non-zero, "truncated": the probe passes and the conversion exits
\* non-zero).  ffmpeg's verdict is taken to depend on the content alone.
GoodWav       == [filename |-> [stem |-> "song", ext |-> ".wav"],  size |-> 4096, media |-> "audio"]
UnnamedAudio  == [filename |-> NoName,                             size |-> 4096, media |-> "audio"]
TextFile      == [filename |-> [stem |-> "notes", ext |-> ".txt"], size |-> 4096, media |-> "corrupt"]
HugeMp3       == [filename |-> [stem |-> "song", ext |-> ".MP3"],  size |-> MaxUploadBytes + 1, media |-> "audio"]
TinyWav       == [filename |-> [stem |-> "song", ext |-> ".wav"],  size |-> 512,  media |-> "corrupt"]
EmptyWav      == [filename |-> [stem |-> "song", ext |-> ".wav"],  size |-> 0,    media |-> "corrupt"]
TruncatedFlac == [filename |-> [stem |-> "ref", ext |-> ".flac"],  size |-> 4096, media |-> "truncated"]

Uploads == {GoodWav, UnnamedAudio, TextFile, HugeMp3, TinyWav, EmptyWav, TruncatedFlac}

\* The optional reference upload of /master when the client sends none.
NoUpload == [filename |-> NoName, size |-> 0, media |-> "none"]

\* The reference uploads of /master and the files a job is started with.
References == {NoUpload} \cup Uploads
JobFiles == {GoodWav, EmptyWav}

\* What matchering's process() does with two converted files: it writes the
\* output, raises, or returns without having written the output.
ProcessOutcomes == {"ok", "raises", "no_output"}

----------------------------------------------------------------------------
(* Exceptions and responses *)

HTTPException(code, detail) == [kind |-> "http", status_code |-> code, detail |-> detail]
OtherException(msg) == [kind |-> "other", status_code |-> 0, detail |-> msg]
NoException == [kind |-> "none", status_code |-> 0, detail |-> ""]

\* str(e): Starlette's HTTPException prints "<status_code>: <detail>".
StrExc(e) ==
    IF e.kind = "http" THEN ToString(e.status_code) \o ": " \o e.detail ELSE e.detail

JSONResponse(code, content) ==
    [status_code |-> code, media_type |-> "application/json", content |-> content, path |-> NoPath]

\* Response(content=<bytes of path>, media_type="audio/wav") and FileResponse(path)
FileResponse(path) ==
    [status_code |-> 200, media_type |-> "audio/wav", content |-> NoBody, path |-> path]

http_exception_handler(exc) ==
    JSONResponse(exc.status_code, [detail |-> JStr(exc.detail)])

general_exception_handler(exc) ==
    JSONResponse(500, [detail |-> JStr("Internal server error: " \o StrExc(exc))])

\* What FastAPI answers when a handler ends by raising exc.
Raised(exc) ==
    IF exc.kind = "http" THEN http_exception_handler(exc) ELSE general_exception_handler(exc)

----------------------------------------------------------------------------
(* _to_wav *)

\* Exit codes of the two ffmpeg runs on a file.
probe_returncode(media) == IF media = "corrupt" THEN 1 ELSE 0
convert_returncode(media) == IF media = "truncated" THEN 1 ELSE 0

\* The HTTPException raised inside a try block of _to_wav is caught by that
\* block's `except Exception` and raised again with the given prefix.
Reraised(prefix, exc) == HTTPException(400, prefix \o StrExc(exc))

\* _to_wav(input_path, workdir) on a saved file: the exception it raises, or
\* the path of the converted file.  (ffmpeg's stderr, which the details end
\* with, is left out of the texts.)
_to_wav(input_path, workdir, file) ==
    LET base == input_path.stem
        plain == Path(workdir, base, ".wav")
        output_path ==
            IF Lower(input_path.ext) \in {".wav", ".wave"} /\ input_path = plain
            THEN Path(workdir, base \o ".converted", ".wav")
            ELSE plain
        raise(e) == [exc |-> e, path |-> NoPath]
    IN  IF file.size = 0
        THEN raise(HTTPException(400, "Uploaded file is empty"))
        ELSE IF file.size < MinUploadBytes
        THEN raise(HTTPException(400, "Uploaded file is too small to be a valid audio file"))
        ELSE IF probe_returncode(file.media) # 0
        THEN raise(Reraised("Failed to validate audio file: ",
                   HTTPException(400, "Invalid audio file format or corrupted file.")))
        ELSE IF convert_returncode(file.media) # 0
        THEN raise(Reraised("Conversion error: ", HTTPException(400, "Audio conversion failed")))
        ELSE [exc |-> NoException, path |-> output_path]

----------------------------------------------------------------------------
(* /master *)

\* The checks of the upload (main.py:137-156): the exception raised, if any.
\* `audio.size and ...`: a size of 0 is falsy and skips the size checks.
validate(audio) ==
    IF audio.filename = NoName
    THEN HTTPException(400, "No filename provided")
    ELSE IF audio.size # 0 /\ audio.size > MaxUploadBytes
    THEN HTTPException(400, "File too large. Maximum size is 200MB")
    ELSE IF audio.size # 0 /\ audio.size < MinUploadBytes
    THEN HTTPException(400, "File too small. Minimum size is 1KB")
    ELSE IF Lower(audio.filename.ext) \notin allowed_extensions
    THEN HTTPException(400, "Unsupported file format " \o Lower(audio.filename.ext))
    ELSE NoException

\* _apply_volume_control: the path of the file it wrote, or input_path when
\* its processing failed.
_apply_volume_control(input_path, workdir, controlled) ==
    IF controlled THEN Path(workdir, "mastered_controlled", ".wav") ELSE input_path

\* The body of master_audio's try block: the exception raised in it, if any.
\* imported: `import matchering` succeeds; processed: what mg.process does.
master_try(tmpdir, audio, reference, imported, processed) ==
    IF ~imported
    THEN OtherException("No module named 'matchering'")
    ELSE IF validate(audio) # NoException
    THEN validate(audio)
    ELSE
      LET target_upload == Path(tmpdir, audio.filename.stem, audio.filename.ext)
          t == _to_wav(target_upload, tmpdir, audio)
          has_reference == reference # NoUpload /\ reference.filename # NoName
          reference_upload == Path(tmpdir, reference.filename.stem, reference.filename.ext)
          r == IF has_reference THEN _to_wav(reference_upload, tmpdir, reference) ELSE t
      IN  IF t.exc # NoException THEN t.exc
          ELSE IF r.exc # NoException THEN r.exc
          ELSE IF processed = "raises" THEN OtherException("matchering: processing failed")
          ELSE IF processed = "no_output"
          THEN HTTPException(500, "Mastering failed: output not created")
          ELSE NoException

\* `except Exception as e: raise HTTPException(500, f"Mastering error: {e}")`
\* (main.py:213-217); HTTPException is an Exception, so it is caught too.
master_except(exc) == HTTPException(500, "Mastering error: " \o StrExc(exc))

\* The response of master_audio.
master_response(tmpdir, audio, reference, imported, processed, controlled) ==
    LET exc == master_try(tmpdir, audio, reference, imported, processed)
    IN  IF exc = NoException
        THEN FileResponse(_apply_volume_control(Path(tmpdir, "mastered", ".wav"), tmpdir, controlled))
        ELSE Raised(master_except(exc))

----------------------------------------------------------------------------
(* State *)

VARIABLES
    JOBS,        \* the job store: job id -> [status, message, output_path, tmpdir]
    files,       \* the uploads saved in a job's directory: job id -> [target, reference]
    queue,       \* the executor's work queue: job ids, oldest first
    worker,      \* the executor's threads: [job, pc, message]
    dirs,        \* the temporary directories that exist
    loop,        \* the handler the event loop is running: [op, upload, reference, job]
    resp,        \* the response being sent: [op, id, upload, reference, imported, response]
    submitted,   \* history: the job ids in the order of executor.submit
    started,     \* history: the job ids in the order they became "running"
    remembered   \* history: an earlier response of /analyze: [upload, response, alone]

vars == <<JOBS, files, queue, worker, dirs, loop, resp, submitted, started, remembered>>

\* An executor with a second thread.
more_workers == 1 + 1

\* ThreadPoolExecutor(max_workers=1)
max_workers == 1
Workers == 1..max_workers

JobIds == 1..MaxJobs

\* The ids a client asks /master/status and /master/result about: the ids
\* uuid4 hands out, known or not yet, and 0, which it never hands out.
QueryIds == 0..MaxJobs

\* uuid.uuid4().hex: an id no job has; the n-th call gets n.
uuid4 == Cardinality(DOMAIN JOBS) + 1

\* tempfile.mkdtemp(prefix="job-") and tempfile.TemporaryDirectory(): names no
\* other live directory has.  The loop holds one TemporaryDirectory at a time.
JobDir(job_id) == "job-" \o ToString(job_id)
TmpDir == "tmp"

Idle == [op |-> "idle", upload |-> NoUpload, reference |-> NoUpload, job |-> 0]

NoResponse == [status_code |-> 0, media_type |-> "", content |-> NoBody, path |-> NoPath]
NoResp == [op |-> "none", id |-> 0, upload |-> NoUpload, reference |-> NoUpload,
           imported |-> FALSE, response |-> NoResponse]
Answer(op, id, upload, reference, imported, response) ==
    [op |-> op, id |-> id, upload |-> upload, reference |-> reference,
     imported |-> imported, response |-> response]

NoMemory == [upload |-> NoUpload, response |-> NoResponse, alone |-> FALSE]

IdleWorker == [job |-> 0, pc |-> "idle", message |-> JNone]

Init ==
    /\ JOBS = <<>>
    /\ files = <<>>
    /\ queue = <<>>
    /\ worker = [w \in Workers |-> IdleWorker]
    /\ dirs = {}
    /\ loop = Idle
    /\ resp = NoResp
    /\ submitted = <<>>
    /\ started = <<>>
    /\ remembered = NoMemory

\* A response is sent before the next step is looked at: resp is the output
\* of the step just taken.
send_response ==
    /\ resp # NoResp
    /\ resp' = NoResp
    /\ UNCHANGED <<JOBS, files, queue, worker, dirs, loop, submitted, started, remembered>>

----------------------------------------------------------------------------
(* /master/start and the executor's job *)

\* master_start, main.py:246-248: the job's directory and its JOBS entry.
master_start_register ==
    /\ resp = NoResp
    /\ loop = Idle
    /\ Cardinality(DOMAIN JOBS) < MaxJobs
    /\ \E target \in JobFiles, reference \in JobFiles :
         LET job_id == uuid4
             tmpdir == JobDir(job_id)
         IN  /\ dirs' = dirs \cup {tmpdir}
             /\ JOBS' = JOBS @@ (job_id :> [status |-> "queued", message |-> JNone,
                                            output_path |-> NoPath, tmpdir |-> tmpdir])
             /\ loop' = [op |-> "master_start", upload |-> target,
                         reference |-> reference, job |-> job_id]
    /\ UNCHANGED <<files, queue, worker, resp, submitted, started, remembered>>

\* master_start, main.py:250-260: save both uploads, submit the job, answer.
master_start_submit ==
    /\ resp = NoResp
    /\ loop.op = "master_start"
    /\ files' = files @@ (loop.job :> [target |-> loop.upload, reference |-> loop.reference])
    /\ queue' = Append(queue, loop.job)
    /\ submitted' = Append(submitted, loop.job)
    /\ resp' = Answer("master_start", loop.job, loop.upload, loop.reference, FALSE,
                      JSONResponse(200, [job_id |-> JStr(ToString(loop.job))]))
    /\ loop' = Idle
    /\ UNCHANGED <<JOBS, dirs, worker, started, remembered>>

\* A queue whose taken item is not removed.
work_kept(q) == q

\* The work item an idle executor thread takes: the oldest (queue.SimpleQueue).
work_item(q) == Head(q)
work_left(q) == Tail(q)

\* JOBS with one field of one job assigned.
SetStatus(jobs, job_id, status) == [jobs EXCEPT ![job_id].status = status]
SetMessage(jobs, job_id, message) == [jobs EXCEPT ![job_id].message = message]
SetOutputPath(jobs, job_id, path) == [jobs EXCEPT ![job_id].output_path = path]

\* _run_matchering_job, main.py:221-224 (and 236-237 when the import fails):
\* a thread takes the job and marks it running.
job_begin(w) ==
    /\ resp = NoResp
    /\ worker[w].pc = "idle"
    /\ queue # <<>>
    /\ LET job_id == work_item(queue)
       IN  /\ queue' = work_left(queue)
           /\ \E imported \in BOOLEAN :
                IF imported
                THEN /\ JOBS' = SetStatus(JOBS, job_id, "running")
                     /\ worker' = [worker EXCEPT ![w] = [job |-> job_id, pc |-> "process", message |-> JNone]]
                     /\ started' = Append(started, job_id)
                ELSE /\ JOBS' = SetStatus(JOBS, job_id, "error")
                     /\ worker' = [worker EXCEPT ![w] = [job |-> job_id, pc |-> "record",
                                                         message |-> JStr("No module named 'matchering'")]]
                     /\ UNCHANGED started
    /\ UNCHANGED <<files, dirs, loop, resp, submitted, remembered>>

\* The exception raised by main.py:227-229, if any.
job_try(tmpdir, target, reference, processed) ==
    LET target_name == OrName(target.filename, "target")
        reference_name == OrName(reference.filename, "reference")
        t == _to_wav(Path(tmpdir, target_name.stem, target_name.ext), tmpdir, target)
        r == _to_wav(Path(tmpdir, reference_name.stem, reference_name.ext), tmpdir, reference)
    IN  IF t.exc # NoException THEN t.exc
        ELSE IF r.exc # NoException THEN r.exc
        ELSE IF processed = "raises" THEN OtherException("matchering: processing failed")
        ELSE NoException

\* _run_matchering_job, main.py:225-231, 234 or 237: convert, process, and
\* the status that results.
job_process(w) ==
    /\ resp = NoResp
    /\ worker[w].pc = "process"
    /\ \E processed \in ProcessOutcomes :
         LET job_id == worker[w].job
             exc == job_try(JOBS[job_id].tmpdir, files[job_id].target, files[job_id].reference, processed)
         IN  IF exc # NoException
             THEN /\ JOBS' = SetStatus(JOBS, job_id, "error")
                  /\ worker' = [worker EXCEPT ![w].pc = "record", ![w].message = JStr(StrExc(exc))]
             ELSE IF processed = "no_output"
             THEN /\ JOBS' = SetStatus(JOBS, job_id, "error")
                  /\ worker' = [worker EXCEPT ![w].pc = "record", ![w].message = JStr("Output not created")]
             ELSE /\ JOBS' = SetStatus(JOBS, job_id, "done")
                  /\ worker' = [worker EXCEPT ![w].pc = "record"]
    /\ UNCHANGED <<files, queue, dirs, loop, resp, submitted, started, remembered>>

\* _run_matchering_job, main.py:232, 235 or 238: the field that goes with the
\* status; the thread is free again.
job_record(w) ==
    /\ resp = NoResp
    /\ worker[w].pc = "record"
    /\ LET job_id == worker[w].job
       IN  JOBS' = IF JOBS[job_id].status = "done"
                   THEN SetOutputPath(JOBS, job_id, Path(JOBS[job_id].tmpdir, "mastered", ".wav"))
                   ELSE SetMessage(JOBS, job_id, worker[w].message)
    /\ worker' = [worker EXCEPT ![w] = IdleWorker]
    /\ UNCHANGED <<files, queue, dirs, loop, resp, submitted, started, remembered>>

----------------------------------------------------------------------------
(* /master/status and /master/result *)

\* `job = JOBS.get(id); if not job`: an entry is a non-empty dict.
job_found(id) == id \in DOMAIN JOBS

\* The job's output exists once output_path is set: nothing removes it.
status_response(id) ==
    IF ~job_found(id)
    THEN Raised(HTTPException(404, "Job not found"))
    ELSE JSONResponse(200, [status |-> JStr(JOBS[id].status),
                            message |-> JOBS[id].message,
                            has_output |-> JBool(JOBS[id].output_path # NoPath)])

\* master_result without the test of output_path.
result_response_by_status(id) ==
    IF ~job_found(id)
    THEN Raised(HTTPException(404, "Job not found"))
    ELSE IF JOBS[id].status # "done"
    THEN Raised(HTTPException(400, "Job not completed"))
    ELSE FileResponse(JOBS[id].output_path)

result_response(id) ==
    IF ~job_found(id)
    THEN Raised(HTTPException(404, "Job not found"))
    ELSE IF JOBS[id].status # "done" \/ JOBS[id].output_path = NoPath
    THEN Raised(HTTPException(400, "Job not completed"))
    ELSE FileResponse(JOBS[id].output_path)

master_status ==
    /\ resp = NoResp
    /\ \E id \in QueryIds :
         resp' = Answer("master_status", id, NoUpload, NoUpload, FALSE, status_response(id))
    /\ UNCHANGED <<JOBS, files, queue, worker, dirs, loop, submitted, started, remembered>>

\* The reads of status and of output_path are two steps of the code; both
\* fields only ever go from unset to set, so the answer is the one a single
\* read at the time of the second gives.
master_result ==
    /\ resp = NoResp
    /\ \E id \in QueryIds :
         resp' = Answer("master_result", id, NoUpload, NoUpload, FALSE, result_response(id))
    /\ UNCHANGED <<JOBS, files, queue, worker, dirs, loop, submitted, started, remembered>>

----------------------------------------------------------------------------
(* /master *)

\* master_audio, main.py:130: the working directory.
master_begin ==
    /\ resp = NoResp
    /\ loop = Idle
    /\ \E audio \in Uploads, reference \in References :
         loop' = [op |-> "master", upload |-> audio, reference |-> reference, job |-> 0]
    /\ dirs' = dirs \cup {TmpDir}
    /\ UNCHANGED <<JOBS, files, queue, worker, resp, submitted, started, remembered>>

\* A working directory that is not removed.
TemporaryDirectory_kept(ds) == ds

\* leaving `with tempfile.TemporaryDirectory()`
TemporaryDirectory_exit(ds) == ds \ {TmpDir}

\* master_audio, main.py:131-217, and the end of the with block.
master_finish ==
    /\ resp = NoResp
    /\ loop.op = "master"
    /\ \E imported \in BOOLEAN, processed \in ProcessOutcomes, controlled \in BOOLEAN :
         resp' = Answer("master", 0, loop.upload, loop.reference, imported,
                        master_response(TmpDir, loop.upload, loop.reference,
                                        imported, processed, controlled))
    /\ dirs' = TemporaryDirectory_exit(dirs)
    /\ loop' = Idle
    /\ UNCHANGED <<JOBS, files, queue, worker, submitted, started, remembered>>

----------------------------------------------------------------------------
(* /analyze *)

\* A result with a key outside the 24 and a bpm sent as a string.
analysis_result_untyped ==
    [bpm |-> JStr("128"), key |-> JStr("H Minor"),
     duration |-> JStr("3:24"), sample_rate |-> JStr("44.1 kHz")]

\* A result that depends on the job store.
analysis_result_shared ==
    [bpm |-> JFloat(IF DOMAIN JOBS = {} THEN "128.0" ELSE "120.0"), key |-> JStr("A Minor"),
     duration |-> JStr("3:24"), sample_rate |-> JStr("44.1 kHz")]

\* main.py:477-482
analysis_result ==
    [bpm |-> JFloat("128.0"), key |-> JStr("A Minor"),
     duration |-> JStr("3:24"), sample_rate |-> JStr("44.1 kHz")]

\* The response of analyze_audio for an upload saved in tmpdir.
analyze_response(tmpdir, audio) ==
    LET name == OrName(audio.filename, "audio")
        wav == _to_wav(Path(tmpdir, name.stem, name.ext), tmpdir, audio)
    IN  IF wav.exc = NoException
        THEN JSONResponse(200, analysis_result)
        ELSE Raised(HTTPException(500, "Analysis failed: " \o StrExc(wav.exc)))

\* analyze_audio, main.py:464-469: the working directory and the saved upload.
analyze_begin ==
    /\ resp = NoResp
    /\ loop = Idle
    /\ \E audio \in Uploads :
         loop' = [op |-> "analyze", upload |-> audio, reference |-> NoUpload, job |-> 0]
    /\ dirs' = dirs \cup {TmpDir}
    /\ UNCHANGED <<JOBS, files, queue, worker, resp, submitted, started, remembered>>

\* analyze_audio, main.py:471-489, and the end of the with block.  The
\* history variable keeps this response or the one it had.
analyze_finish ==
    /\ resp = NoResp
    /\ loop.op = "analyze"
    /\ LET response == analyze_response(TmpDir, loop.upload)
       IN  /\ resp' = Answer("analyze", 0, loop.upload, NoUpload, FALSE, response)
           /\ \E keep \in BOOLEAN :
                remembered' = IF keep
                              THEN [upload |-> loop.upload, response |-> response,
                                    alone |-> (DOMAIN JOBS = {})]
                              ELSE remembered
    /\ dirs' = TemporaryDirectory_exit(dirs)
    /\ loop' = Idle
    /\ UNCHANGED <<JOBS, files, queue, worker, submitted, started>>

----------------------------------------------------------------------------
(* Specifications *)

JobSteps == \E w \in Workers : job_begin(w) \/ job_process(w) \/ job_record(w)

Next ==
    \/ master_start_register
    \/ master_start_submit
    \/ JobSteps
    \/ master_status
    \/ master_result
    \/ master_begin
    \/ master_finish
    \/ analyze_begin
    \/ analyze_finish
    \/ send_response

Spec == Init /\ [][Next]_vars

\* The job endpoints and the executor.
NextJobs ==
    \/ master_start_register
    \/ master_start_submit
    \/ JobSteps
    \/ master_status
    \/ master_result
    \/ send_response

SpecJobs == Init /\ [][NextJobs]_vars

\* /analyze, with jobs being started and run in between.
NextAnalyze ==
    \/ analyze_begin
    \/ analyze_finish
    \/ master_start_register
    \/ master_start_submit
    \/ JobSteps
    \/ send_response

SpecAnalyze == Init /\ [][NextAnalyze]_vars

\* /master.
NextMaster ==
    \/ master_begin
    \/ master_finish
    \/ send_response

SpecMaster == Init /\ [][NextMaster]_vars

----------------------------------------------------------------------------
(* Claims *)

NoteNames == {"C", "C#", "D", "D#", "E", "F", "F#", "G", "G#", "A", "A#", "B"}
Keys24 == {JStr(n \o " " \o m) : n \in NoteNames, m \in {"Major", "Minor"}}

AnalyzeAnswered == resp.op = "analyze"
AnalyzeSucceeded == AnalyzeAnswered /\ resp.response.status_code = 200

\* C1 as stated: every successful /analyze response carries a float bpm and a
\* key among the 24 "<NoteName> <Major|Minor>" strings, and the JSON object
\* is exactly {"bpm", "key"}.
C1_BpmKeyOnly ==
    AnalyzeSucceeded =>
        /\ {"bpm", "key"} \subseteq DOMAIN resp.response.content
        /\ resp.response.content.bpm.type = "float"
        /\ resp.response.content.key \in Keys24
        /\ DOMAIN resp.response.content = {"bpm", "key"}

\* C1 as amended: every successful /analyze response is a JSON object with
\* exactly the keys bpm, key, duration and sample_rate, whose bpm is a float
\* and whose key is among the 24 "<NoteName> <Major|Minor>" strings.
C1_BpmKeyAmongFour ==
    AnalyzeSucceeded =>
        /\ resp.response.media_type = "application/json"
        /\ DOMAIN resp.response.content = {"bpm", "key", "duration", "sample_rate"}
        /\ resp.response.content.bpm.type = "float"
        /\ resp.response.content.key \in Keys24

C1_Witness == AnalyzeSucceeded /\ resp.upload = GoodWav

AnalyzeStep == loop' # loop /\ (loop.op = "analyze" \/ loop'.op = "analyze")

C3_Fallback ==
    (AnalyzeAnswered /\ resp.upload.size < MinUploadBytes) =>
        /\ resp.response.status_code = 200
        /\ "bpm" \in DOMAIN resp.response.content
        /\ resp.response.content.bpm = JFloat("120.0")
        /\ resp.upload.size = 0 => resp.response.content.key = JStr("C Major")

Running == {j \in DOMAIN JOBS : JOBS[j].status = "running"}

Statuses == {"queued", "running", "done", "error"}
Forward == {<<"queued", "running">>, <<"running", "done">>,
            <<"queued", "error">>, <<"running", "error">>}

\* C5: every job's status is queued, running, done or error; a job enters the
\* store as queued and is never removed; a status changes only queued ->
\* running, running -> done, queued -> error or running -> error, so done
\* comes only from running and done and error are final.
C5_Lifecycle ==
    /\ [](\A j \in DOMAIN JOBS : JOBS[j].status \in Statuses)
    /\ [][/\ DOMAIN JOBS \subseteq DOMAIN JOBS'
          /\ \A j \in DOMAIN JOBS' :
               IF j \notin DOMAIN JOBS
               THEN JOBS'[j].status = "queued"
               ELSE \/ JOBS'[j].status = JOBS[j].status
                    \/ <<JOBS[j].status, JOBS'[j].status>> \in Forward]_vars

\* One job is done, another went from queued to error.
C5_Witness ==
    \E j, k \in DOMAIN JOBS :
        /\ JOBS[j].status = "done"
        /\ JOBS[j].output_path # NoPath
        /\ JOBS[k].status = "error"
        /\ k \notin {started[i] : i \in DOMAIN started}

\* C6: /master/result and /master/status leave the job store as it is;
\* /master/result serves the job's file only when the job is done and its
\* output_path is set, answers 404 "Job not found" for an id that is not in
\* the store and 400 "Job not completed" for a job that is queued, running or
\* error; /master/status answers 404 for exactly the ids not in the store.
C6_Result ==
    [][(resp' # resp /\ resp'.op \in {"master_result", "master_status"}) =>
        LET id == resp'.id
            r == resp'.response
        IN  /\ UNCHANGED <<JOBS, files, queue, worker, dirs>>
            /\ (r.status_code = 404) <=> (id \notin DOMAIN JOBS)
            /\ r.status_code = 404 => r.content = [detail |-> JStr("Job not found")]
            /\ resp'.op = "master_result" =>
                 /\ r.status_code = 200 =>
                      /\ JOBS[id].status = "done"
                      /\ JOBS[id].output_path # NoPath
                      /\ r.path = JOBS[id].output_path
                 /\ (id \in DOMAIN JOBS /\ JOBS[id].status \in {"queued", "running", "error"}) =>
                      /\ r.status_code = 400
                      /\ r.content = [detail |-> JStr("Job not completed")]]_vars

C6_Witness ==
    /\ resp.op = "master_result"
    /\ resp.response.status_code = 200
    /\ resp.response.path = JOBS[resp.id].output_path

Pos(seq, x) == CHOOSE p \in DOMAIN seq : seq[p] = x
Elems(seq) == {seq[i] : i \in DOMAIN seq}

\* C7: at most one job is running, and the jobs became running in the order
\* in which they were submitted: no job is started while one submitted before
\* it still waits in the queue.
C7_OneAtATime ==
    /\ Cardinality(Running) <= 1
    /\ Elems(started) \subseteq Elems(submitted)
    /\ \A i, k \in DOMAIN started :
         i < k => Pos(submitted, started[i]) < Pos(submitted, started[k])
    /\ \A p, q \in DOMAIN submitted :
         (p < q /\ submitted[q] \in Elems(started)) => submitted[p] \notin Elems(queue)

\* Two jobs have become running, one after the other.
C7_Witness == Len(started) >= 2 /\ Running # {}

\* C8 as stated: a /master request whose upload fails a validation (no
\* filename, larger than 200MB, smaller than 1KB, extension not allowed) is
\* answered 400 with that validation's detail.
C8_Validation400 ==
    (resp.op = "master" /\ resp.imported /\ validate(resp.upload) # NoException) =>
        /\ resp.response.status_code = 400
        /\ resp.response.content = [detail |-> JStr(validate(resp.upload).detail)]

====
